---- MODULE Spec2Model ----
(***************************************************************************)
(* Model of ckanext/dcat/utils.py: the URI helpers (catalog_uri,           *)
(* dataset_uri, resource_uri, publisher_uri_from_dataset_dict,             *)
(* dataset_id_from_resource) and the two RDF format-name translators.      *)
(*                                                                         *)
(* A Python string is a sequence of one-character strings, so that         *)
(* concatenation, rstrip and replace are computed.  A dict is a function   *)
(* whose DOMAIN is the set of keys present.  Python's None is the value    *)
(* None below, which is no string.                                         *)
(***************************************************************************)
EXTENDS Integers, Sequences, FiniteSets, TLC

VARIABLES config,      \* pylons config: the three options this module reads
          resources,   \* the persisted resources model.Resource.get can find
          uuidCount,   \* how many UUIDs uuid.uuid4() has generated so far
          calls,       \* how many calls of this module's functions were made
          op,          \* the last operation performed
          arg,         \* its argument
          result,      \* its outcome: a returned value or a raised exception
          logged,      \* the levels it logged at
          queried      \* the ids it passed to model.Resource.get

vars == <<config, resources, uuidCount, calls, op, arg, result, logged, queried>>

----------------------------------------------------------------------------
(* Bounds *)

MaxCalls == 3
MaxExtras == 2
MaxSlashes == 2
MaxFormatLen == 3

----------------------------------------------------------------------------
(* Python values *)

None == <<"<None>">>
EmptyDict == [k \in {} |-> <<>>]
KeyError == <<"KeyError">>

Truthy(x) == x # None /\ x # <<>>

Get(d, k) == IF k \in DOMAIN d THEN d[k] ELSE None

GetDefault(d, k, default) == IF k \in DOMAIN d THEN d[k] ELSE default

Str(x) == IF x = None THEN <<"N", "o", "n", "e">> ELSE x

RECURSIVE rstrip(_, _)
rstrip(s, ch) ==
    IF Len(s) > 0 /\ s[Len(s)] = ch THEN rstrip(SubSeq(s, 1, Len(s) - 1), ch)
    ELSE s

RECURSIVE replace(_, _, _)
replace(s, old, new) ==
    IF s = <<>> THEN <<>>
    ELSE (IF Head(s) = old THEN new ELSE <<Head(s)>>) \o replace(Tail(s), old, new)

Digits == <<"0", "1", "2", "3", "4", "5", "6", "7", "8", "9">>

\* str(uuid.uuid4()): the text of the (n+1)-th UUID generated; no two alike.
uuid4(n) == <<"u", "u", "i", "d", "-">> \o <<Digits[n + 1]>>

HTTP == <<"h", "t", "t", "p", ":", "/", "/">>
DATASET == <<"/", "d", "a", "t", "a", "s", "e", "t", "/">>
RESOURCE == <<"/", "r", "e", "s", "o", "u", "r", "c", "e", "/">>
ORGANIZATION == <<"/", "o", "r", "g", "a", "n", "i", "z", "a", "t", "i", "o", "n", "/">>

Returned(v) == [kind |-> "return", val |-> v]
Raised(e) == [kind |-> "raise", val |-> e]

----------------------------------------------------------------------------
(* Inputs *)

ConfigKeys == {"ckanext.dcat.base_uri", "ckan.site_url", "app_instance_uuid"}

Slashes(k) == [i \in 1..k |-> "/"]

ConfigValues(k) ==
    CASE k = "ckanext.dcat.base_uri" ->
           {None, <<>>} \cup {<<"b">> \o Slashes(n) : n \in 0..MaxSlashes}
      [] k = "ckan.site_url" -> {None, <<>>, <<"s">>, <<"s", "/">>}
      [] k = "app_instance_uuid" -> {None, <<>>, <<"{", "a", "}">>}

\* A field that may be missing: <<>> for a missing key, <<v>> for the value v.
Opt(S) == {<<>>} \cup {<<v>> : v \in S}

Field(k, o) == IF Len(o) = 0 THEN EmptyDict ELSE (k :> o[1])

\* Extras entries: three under the key looked for, one under another key.
ExtraEntries(key) ==
    {[key |-> key, value |-> v] : v \in {<<>>, <<"x">>, <<"y">>}}
        \cup {[key |-> "other", value |-> <<"z">>]}

ExtrasOf(key) == UNION {[1..n -> ExtraEntries(key)] : n \in 0..MaxExtras}

DatasetDicts ==
    {Field("uri", u) @@ Field("id", i) @@ Field("extras", e) :
        u \in Opt({<<>>, <<"U">>}), i \in Opt({<<>>, <<"a", "b", "c">>}),
        e \in Opt(ExtrasOf("uri"))}

Organizations ==
    {EmptyDict, [name |-> <<"n">>], [id |-> <<"o", "1">>, name |-> <<"n">>]}

PublisherDicts ==
    {Field("publisher_uri", p) @@ Field("pubisher_uri", q)
        @@ Field("extras", e) @@ Field("organization", o) :
        p \in Opt({<<"P">>}), q \in Opt({<<"Q">>}),
        e \in Opt(ExtrasOf("publisher_uri")), o \in Opt(Organizations)}

ResourceIds == {<<"r", "1">>}
PackageIds == {<<"d", "1">>}

ResourceDicts ==
    {Field("uri", u) @@ Field("id", i) @@ Field("package_id", p) :
        u \in Opt({<<>>, <<"U">>}), i \in Opt({<<>>} \cup ResourceIds),
        p \in Opt({<<>>} \cup PackageIds)}

----------------------------------------------------------------------------
(* catalog_uri *)

\* catalog_uri with ckan.site_url tried before ckanext.dcat.base_uri
catalog_uri_site_first(cfg, n) ==
    LET uri1 == cfg["ckan.site_url"]
        uri2 == IF ~Truthy(uri1) THEN cfg["ckanext.dcat.base_uri"] ELSE uri1
        app_uuid == cfg["app_instance_uuid"]
    IN  IF Truthy(uri2) THEN [val |-> uri2, n |-> n, log |-> {}]
        ELSE IF Truthy(app_uuid)
             THEN [val |-> HTTP \o replace(replace(app_uuid, "{", <<>>), "}", <<>>),
                   n |-> n, log |-> {"critical"}]
             ELSE [val |-> HTTP \o uuid4(n), n |-> n + 1, log |-> {"critical"}]

catalog_uri(cfg, n) ==
    LET uri1 == cfg["ckanext.dcat.base_uri"]
        uri2 == IF ~Truthy(uri1) THEN cfg["ckan.site_url"] ELSE uri1
        app_uuid == cfg["app_instance_uuid"]
    IN  IF Truthy(uri2) THEN [val |-> uri2, n |-> n, log |-> {}]
        ELSE IF Truthy(app_uuid)
             THEN [val |-> HTTP \o replace(replace(app_uuid, "{", <<>>), "}", <<>>),
                   n |-> n, log |-> {"critical"}]
             ELSE [val |-> HTTP \o uuid4(n), n |-> n + 1, log |-> {"critical"}]

----------------------------------------------------------------------------
(* dataset_uri *)

\* the loop without its break: the last entry under the key wins
RECURSIVE last_extra(_, _, _)
last_extra(extras, key, uri) ==
    IF extras = <<>> THEN uri
    ELSE last_extra(Tail(extras), key,
                    IF Head(extras).key = key THEN Head(extras).value ELSE uri)

\* for extra in extras: if extra['key'] == key: uri = extra['value']; break
RECURSIVE first_extra(_, _, _)
first_extra(extras, key, uri) ==
    IF extras = <<>> THEN uri
    ELSE IF Head(extras).key = key THEN Head(extras).value
    ELSE first_extra(Tail(extras), key, uri)

dataset_uri(dataset_dict, cfg, n) ==
    LET uri0 == Get(dataset_dict, "uri")
        uri1 == IF ~Truthy(uri0)
                THEN first_extra(GetDefault(dataset_dict, "extras", <<>>), "uri", uri0)
                ELSE uri0
        byId == ~Truthy(uri1) /\ Truthy(Get(dataset_dict, "id"))
        c1 == catalog_uri(cfg, n)
        uri2 == IF byId THEN rstrip(c1.val, "/") \o DATASET \o Str(dataset_dict["id"])
                ELSE uri1
        n2 == IF byId THEN c1.n ELSE n
        log2 == IF byId THEN c1.log ELSE {}
        c2 == catalog_uri(cfg, n2)
    IN  IF ~Truthy(uri2)
        THEN [val |-> rstrip(c2.val, "/") \o DATASET \o uuid4(c2.n),
              n |-> c2.n + 1, log |-> log2 \cup c2.log \cup {"warning"}]
        ELSE [val |-> uri2, n |-> n2, log |-> log2]

----------------------------------------------------------------------------
(* dataset_id_from_resource and resource_uri *)

\* dataset_id_from_resource asking the database before it looks at package_id
dataset_id_from_resource_lookup_first(resource_dict, table) ==
    LET dataset_id == Get(resource_dict, "package_id")
    IN  IF "id" \notin DOMAIN resource_dict
        THEN IF Truthy(dataset_id)
             THEN [kind |-> "return", val |-> dataset_id, queried |-> <<>>]
             ELSE Raised(KeyError) @@ [queried |-> <<>>]
        ELSE [kind |-> "return",
              val |-> IF resource_dict["id"] \in DOMAIN table
                      THEN table[resource_dict["id"]] ELSE dataset_id,
              queried |-> <<resource_dict["id"]>>]

\* model.Resource.get(id), then get_package_id() on what it finds
dataset_id_from_resource(resource_dict, table) ==
    LET dataset_id == Get(resource_dict, "package_id")
    IN  IF Truthy(dataset_id)
        THEN [kind |-> "return", val |-> dataset_id, queried |-> <<>>]
        ELSE IF "id" \notin DOMAIN resource_dict
        THEN Raised(KeyError) @@ [queried |-> <<>>]
        ELSE [kind |-> "return",
              val |-> Get(table, resource_dict["id"]),
              queried |-> <<resource_dict["id"]>>]

\* resource_uri without the rstrip('/')
resource_uri_no_rstrip(resource_dict, cfg, n, table) ==
    LET uri == Get(resource_dict, "uri")
        d == dataset_id_from_resource(resource_dict, table)
        c == catalog_uri(cfg, n)
    IN  IF Truthy(uri)
        THEN [kind |-> "return", val |-> uri, n |-> n, log |-> {}, queried |-> <<>>]
        ELSE IF d.kind = "raise"
        THEN [kind |-> "raise", val |-> d.val, n |-> n, log |-> {},
              queried |-> d.queried]
        ELSE IF "id" \notin DOMAIN resource_dict
        THEN [kind |-> "raise", val |-> KeyError, n |-> c.n, log |-> c.log,
              queried |-> d.queried]
        ELSE [kind |-> "return",
              val |-> c.val \o DATASET \o Str(d.val)
                        \o RESOURCE \o Str(resource_dict["id"]),
              n |-> c.n, log |-> c.log, queried |-> d.queried]

\* resource_uri reading the id with .get(): a missing id is formatted as None
resource_uri_get_id(resource_dict, cfg, n, table) ==
    LET uri == Get(resource_dict, "uri")
        d == dataset_id_from_resource(resource_dict, table)
        c == catalog_uri(cfg, n)
    IN  IF Truthy(uri)
        THEN [kind |-> "return", val |-> uri, n |-> n, log |-> {}, queried |-> <<>>]
        ELSE IF d.kind = "raise"
        THEN [kind |-> "raise", val |-> d.val, n |-> n, log |-> {},
              queried |-> d.queried]
        ELSE [kind |-> "return",
              val |-> rstrip(c.val, "/") \o DATASET \o Str(d.val)
                        \o RESOURCE \o Str(Get(resource_dict, "id")),
              n |-> c.n, log |-> c.log, queried |-> d.queried]

resource_uri(resource_dict, cfg, n, table) ==
    LET uri == Get(resource_dict, "uri")
        d == dataset_id_from_resource(resource_dict, table)
        c == catalog_uri(cfg, n)
    IN  IF Truthy(uri)
        THEN [kind |-> "return", val |-> uri, n |-> n, log |-> {}, queried |-> <<>>]
        ELSE IF d.kind = "raise"
        THEN [kind |-> "raise", val |-> d.val, n |-> n, log |-> {},
              queried |-> d.queried]
        ELSE IF "id" \notin DOMAIN resource_dict
        THEN [kind |-> "raise", val |-> KeyError, n |-> c.n, log |-> c.log,
              queried |-> d.queried]
        ELSE [kind |-> "return",
              val |-> rstrip(c.val, "/") \o DATASET \o Str(d.val)
                        \o RESOURCE \o Str(resource_dict["id"]),
              n |-> c.n, log |-> c.log, queried |-> d.queried]

----------------------------------------------------------------------------
(* publisher_uri_from_dataset_dict *)

publisher_uri_from_dataset_dict(dataset_dict, cfg, n) ==
    LET uri0 == Get(dataset_dict, "pubisher_uri")
        uri1 == IF ~Truthy(uri0)
                THEN first_extra(GetDefault(dataset_dict, "extras", <<>>),
                                 "publisher_uri", uri0)
                ELSE uri0
        hasOrg == /\ "organization" \in DOMAIN dataset_dict
                  /\ DOMAIN dataset_dict["organization"] # {}
        c == catalog_uri(cfg, n)
    IN  IF ~Truthy(uri1) /\ hasOrg
        THEN IF "id" \notin DOMAIN dataset_dict["organization"]
             THEN [kind |-> "raise", val |-> KeyError, n |-> c.n, log |-> c.log]
             ELSE [kind |-> "return",
                   val |-> rstrip(c.val, "/") \o ORGANIZATION
                             \o Str(dataset_dict["organization"]["id"]),
                   n |-> c.n, log |-> c.log]
        ELSE [kind |-> "return", val |-> uri1, n |-> n, log |-> {}]

----------------------------------------------------------------------------
(* url_to_rdflib_format and rdflib_to_url_format *)

TTL == <<"t", "t", "l">>
RDF == <<"r", "d", "f">>
XML == <<"x", "m", "l">>
N3 == <<"n", "3">>
JSONLD == <<"j", "s", "o", "n", "l", "d">>
TURTLE == <<"t", "u", "r", "t", "l", "e">>
PRETTY_XML == <<"p", "r", "e", "t", "t", "y", "-", "x", "m", "l">>
JSON_LD == <<"j", "s", "o", "n", "-", "l", "d">>

\* Both vocabularies, and every string of up to MaxFormatLen letters.
Formats ==
    {TTL, RDF, XML, N3, JSONLD, TURTLE, PRETTY_XML, JSON_LD}
        \cup UNION {[1..n -> {"t", "l", "x", "m"}] : n \in 0..MaxFormatLen}

url_to_rdflib_format(format) ==
    IF format = TTL THEN TURTLE
    ELSE IF format \in {RDF, XML} THEN PRETTY_XML
    ELSE IF format = JSONLD THEN JSON_LD
    ELSE format

\* rdflib_to_url_format giving rdf, not xml, for pretty-xml
rdflib_to_url_format_rdf(format) ==
    IF format = TURTLE THEN TTL
    ELSE IF format = PRETTY_XML THEN RDF
    ELSE IF format = JSON_LD THEN JSONLD
    ELSE format

rdflib_to_url_format(format) ==
    IF format = TURTLE THEN TTL
    ELSE IF format = PRETTY_XML THEN XML
    ELSE IF format = JSON_LD THEN JSONLD
    ELSE format

----------------------------------------------------------------------------
(* Operations *)

InitState ==
    /\ config = [k \in ConfigKeys |-> None]
    /\ resources = EmptyDict
    /\ uuidCount = 0
    /\ calls = 0
    /\ op = "init"
    /\ result = Returned(None)
    /\ logged = {}
    /\ queried = <<>>

Init == InitState /\ arg = None

\* The record the caller holds and passes to dataset_uri.
InitDataset == InitState /\ arg \in DatasetDicts

InitResource == InitState /\ arg \in ResourceDicts

InitPublisher == InitState /\ arg \in PublisherDicts

\* The deployment changes an option; this module only reads config.
SetConfig ==
    \E k \in ConfigKeys : \E v \in ConfigValues(k) :
        /\ config' = [config EXCEPT ![k] = v]
        /\ op' = "config"
        /\ result' = Returned(None)
        /\ logged' = {}
        /\ queried' = <<>>
        /\ UNCHANGED <<resources, uuidCount, calls, arg>>

\* CKAN persists a resource of some dataset; this module only reads them.
SaveResource ==
    \E id \in ResourceIds : \E package_id \in PackageIds :
        /\ id \notin DOMAIN resources
        /\ resources' = (id :> package_id) @@ resources
        /\ op' = "save"
        /\ result' = Returned(None)
        /\ logged' = {}
        /\ queried' = <<>>
        /\ UNCHANGED <<config, uuidCount, calls, arg>>

\* The model follows the caller for MaxCalls calls.
CanCall == calls < MaxCalls

\* catalog_uri keeping the URI it returned last in a module-level cache
CatalogUriCallCached ==
    /\ CanCall
    /\ LET r == catalog_uri(config, uuidCount)
       IN  /\ op' = "catalog_uri"
           /\ result' = IF op = "catalog_uri" THEN result ELSE Returned(r.val)
           /\ uuidCount' = IF op = "catalog_uri" THEN uuidCount ELSE r.n
           /\ logged' = IF op = "catalog_uri" THEN {} ELSE r.log
           /\ queried' = <<>>
    /\ calls' = calls + 1
    /\ UNCHANGED <<config, resources, arg>>

CatalogUriCall ==
    /\ CanCall
    /\ LET r == catalog_uri(config, uuidCount)
       IN  /\ op' = "catalog_uri"
           /\ result' = Returned(r.val)
           /\ uuidCount' = r.n
           /\ logged' = r.log
           /\ queried' = <<>>
    /\ calls' = calls + 1
    /\ UNCHANGED <<config, resources, arg>>

DatasetUriCall ==
    /\ CanCall
    /\ LET r == dataset_uri(arg, config, uuidCount)
       IN  /\ op' = "dataset_uri"
           /\ result' = Returned(r.val)
           /\ uuidCount' = r.n
           /\ logged' = r.log
           /\ queried' = <<>>
    /\ calls' = calls + 1
    /\ UNCHANGED <<config, resources, arg>>

DatasetIdFromResourceCall ==
    /\ CanCall
    /\ LET r == dataset_id_from_resource(arg, resources)
       IN  /\ op' = "dataset_id_from_resource"
           /\ result' = [kind |-> r.kind, val |-> r.val]
           /\ logged' = {}
           /\ queried' = r.queried
    /\ calls' = calls + 1
    /\ UNCHANGED <<config, resources, uuidCount, arg>>

ResourceUriCall ==
    /\ CanCall
    /\ LET r == resource_uri(arg, config, uuidCount, resources)
       IN  /\ op' = "resource_uri"
           /\ result' = [kind |-> r.kind, val |-> r.val]
           /\ uuidCount' = r.n
           /\ logged' = r.log
           /\ queried' = r.queried
    /\ calls' = calls + 1
    /\ UNCHANGED <<config, resources, arg>>

PublisherUriCall ==
    /\ CanCall
    /\ LET r == publisher_uri_from_dataset_dict(arg, config, uuidCount)
       IN  /\ op' = "publisher_uri_from_dataset_dict"
           /\ result' = [kind |-> r.kind, val |-> r.val]
           /\ uuidCount' = r.n
           /\ logged' = r.log
           /\ queried' = <<>>
    /\ calls' = calls + 1
    /\ UNCHANGED <<config, resources, arg>>

UrlToRdflibFormatCall ==
    /\ \E format \in Formats :
        /\ op' = "url_to_rdflib_format"
        /\ arg' = format
        /\ result' = Returned(url_to_rdflib_format(format))
    /\ UNCHANGED <<config, resources, uuidCount, calls, logged, queried>>

RdflibToUrlFormatCall ==
    /\ \E format \in Formats :
        /\ op' = "rdflib_to_url_format"
        /\ arg' = format
        /\ result' = Returned(rdflib_to_url_format(format))
    /\ UNCHANGED <<config, resources, uuidCount, calls, logged, queried>>

\* The caller translates back what url_to_rdflib_format(arg) just returned.
RoundTripCall ==
    /\ op = "url_to_rdflib_format"
    /\ op' = "round_trip"
    /\ result' = Returned(rdflib_to_url_format(result.val))
    /\ UNCHANGED <<config, resources, uuidCount, calls, arg, logged, queried>>

NextCatalog == SetConfig \/ CatalogUriCall

NextDataset == SetConfig \/ DatasetUriCall

NextResource ==
    SetConfig \/ SaveResource \/ DatasetIdFromResourceCall \/ ResourceUriCall

NextPublisher == SetConfig \/ PublisherUriCall

NextFormat == UrlToRdflibFormatCall \/ RdflibToUrlFormatCall \/ RoundTripCall

SpecCatalog == Init /\ [][NextCatalog]_vars

SpecDataset == InitDataset /\ [][NextDataset]_vars

SpecResource == InitResource /\ [][NextResource]_vars

SpecPublisher == InitPublisher /\ [][NextPublisher]_vars

SpecFormat == Init /\ [][NextFormat]_vars

----------------------------------------------------------------------------
(* What the properties are stated with, independent of the definitions above *)

Available(v) == v # None /\ Len(v) > 0

StripBraces(s) == SelectSeq(s, LAMBDA ch : ch \notin {"{", "}"})

\* s up to its last character that is not a slash
NoTrailingSlash(s) ==
    LET keep == {i \in 1..Len(s) : s[i] # "/"}
    IN  IF keep = {} THEN <<>>
        ELSE SubSeq(s, 1, CHOOSE i \in keep : \A j \in keep : j <= i)

Configured(cfg) == \E k \in ConfigKeys : Available(cfg[k])

\* The text of the k-th last UUID generated, empty when there is none.
LastUuid(k) == IF uuidCount >= k THEN uuid4(uuidCount - k) ELSE <<>>

\* The catalog URI under cfg, with the text of the UUID option (4) generates.
CatalogAt(cfg, uuid) ==
    IF Available(cfg["ckanext.dcat.base_uri"]) THEN cfg["ckanext.dcat.base_uri"]
    ELSE IF Available(cfg["ckan.site_url"]) THEN cfg["ckan.site_url"]
    ELSE IF Available(cfg["app_instance_uuid"])
         THEN HTTP \o StripBraces(cfg["app_instance_uuid"])
    ELSE HTTP \o uuid

IsHttpUuid(v) == \E n \in 0..(2 * MaxCalls) : v = HTTP \o uuid4(n)

\* The index of the first extras entry under key, 0 when there is none.
FirstIndex(extras, key) ==
    LET at == {i \in 1..Len(extras) : extras[i].key = key}
    IN  IF at = {} THEN 0 ELSE CHOOSE i \in at : \A j \in at : i <= j

ExtrasIn(d) == IF "extras" \in DOMAIN d THEN d["extras"] ELSE <<>>

----------------------------------------------------------------------------
(* C1 *)

\* C1: catalog_uri() never fails and returns the first available (set and
\* non-empty) of: ckanext.dcat.base_uri, whatever the other options are;
\* ckan.site_url; "http://" + app_instance_uuid without any "{" or "}";
\* "http://" + the UUID it has just generated.
C1_CatalogUriFirstAvailable ==
    op = "catalog_uri" =>
        /\ result.kind = "return"
        /\ IF Available(config["ckanext.dcat.base_uri"])
           THEN result.val = config["ckanext.dcat.base_uri"]
           ELSE IF Available(config["ckan.site_url"])
           THEN result.val = config["ckan.site_url"]
           ELSE IF Available(config["app_instance_uuid"])
           THEN result.val = HTTP \o StripBraces(config["app_instance_uuid"])
           ELSE uuidCount > 0 /\ result.val = HTTP \o uuid4(uuidCount - 1)

\* catalog_uri() has fallen to option (3) and removed the braces.
C1_Witness ==
    /\ op = "catalog_uri"
    /\ config["ckanext.dcat.base_uri"] = <<>>
    /\ config["ckan.site_url"] = None
    /\ config["app_instance_uuid"] = <<"{", "a", "}">>
    /\ result = Returned(HTTP \o <<"a">>)

----------------------------------------------------------------------------
(* C9 *)

\* C9: catalog_uri() is not cached.  Every call returns what the
\* configuration at the moment of the call gives, whatever was configured or
\* returned before; with no option available it returns http:// + a UUID,
\* and a call that follows another call returns a different string.
C9_CatalogUriNotCached ==
    [][(calls' = calls + 1 /\ op' = "catalog_uri") =>
          /\ Configured(config') => result'.val = CatalogAt(config', <<>>)
          /\ ~Configured(config') =>
                /\ IsHttpUuid(result'.val)
                /\ op = "catalog_uri" => result'.val # result.val]_vars

\* Two calls in a row with nothing configured: the second UUID was returned.
C9_Witness ==
    /\ op = "catalog_uri"
    /\ calls = 2
    /\ uuidCount = 2
    /\ \A k \in ConfigKeys : config[k] = None
    /\ result = Returned(HTTP \o uuid4(1))

----------------------------------------------------------------------------
(* C2 *)

\* C2 (amended): dataset_uri(record) never fails and returns, by first match:
\* (1) the record's uri, if present and non-empty; (2) the value of the first
\* extras entry whose key is "uri", if that value is non-empty; (3)
\* catalog_uri() without its trailing slashes + "/dataset/" + the record's
\* id, if id is present and non-empty; (4) catalog_uri() without its
\* trailing slashes + "/dataset/" + the UUID it has just generated.
C2_DatasetUriFirstMatch ==
    op = "dataset_uri" =>
        LET extras == ExtrasIn(arg)
            i == FirstIndex(extras, "uri")
        IN  /\ result.kind = "return"
            /\ result.val =
                 IF Available(Get(arg, "uri")) THEN arg["uri"]
                 ELSE IF i > 0 /\ Available(extras[i].value) THEN extras[i].value
                 ELSE IF Available(Get(arg, "id"))
                 THEN NoTrailingSlash(CatalogAt(config, LastUuid(1)))
                        \o DATASET \o arg["id"]
                 ELSE NoTrailingSlash(CatalogAt(config, LastUuid(2)))
                        \o DATASET \o LastUuid(1)

\* C2 as stated: (2) applies whenever extras holds an entry under "uri", and
\* (3) whenever the record has an id.
C2_AsStated ==
    op = "dataset_uri" =>
        LET extras == ExtrasIn(arg)
            i == FirstIndex(extras, "uri")
        IN  /\ result.kind = "return"
            /\ result.val =
                 IF Available(Get(arg, "uri")) THEN arg["uri"]
                 ELSE IF i > 0 THEN extras[i].value
                 ELSE IF "id" \in DOMAIN arg
                 THEN NoTrailingSlash(CatalogAt(config, LastUuid(1)))
                        \o DATASET \o arg["id"]
                 ELSE NoTrailingSlash(CatalogAt(config, LastUuid(2)))
                        \o DATASET \o LastUuid(1)

\* An empty uri, a first "uri" extra that is empty before one that is not,
\* and a base URI ending in two slashes: the id is used, after one slash.
C2_Witness ==
    /\ op = "dataset_uri"
    /\ arg = [uri |-> <<>>, id |-> <<"a", "b", "c">>,
              extras |-> <<[key |-> "uri", value |-> <<>>],
                           [key |-> "uri", value |-> <<"x">>]>>]
    /\ config["ckanext.dcat.base_uri"] = <<"b", "/", "/">>
    /\ result = Returned(<<"b">> \o DATASET \o <<"a", "b", "c">>)

----------------------------------------------------------------------------
(* C3 *)

\* C3 (amended): resource_uri(record) returns the record's uri if present and
\* non-empty; otherwise what it returns is catalog_uri() without its trailing
\* slashes + "/dataset/" + the text of the dataset id resolved by
\* dataset_id_from_resource(record) + "/resource/" + the record's id.
C3_ResourceUri ==
    op = "resource_uri" =>
        IF Available(Get(arg, "uri")) THEN result = Returned(arg["uri"])
        ELSE result.kind = "return" =>
               result.val = NoTrailingSlash(CatalogAt(config, LastUuid(1)))
                              \o DATASET
                              \o Str(dataset_id_from_resource(arg, resources).val)
                              \o RESOURCE \o arg["id"]

\* C3 as stated: whenever the uri field is present, it is what is returned.
C3_AsStated ==
    op = "resource_uri" =>
        IF "uri" \in DOMAIN arg
        THEN result.kind = "return" => result.val = arg["uri"]
        ELSE result.kind = "return" =>
               result.val = NoTrailingSlash(CatalogAt(config, LastUuid(1)))
                              \o DATASET
                              \o Str(dataset_id_from_resource(arg, resources).val)
                              \o RESOURCE \o arg["id"]

\* An empty uri is passed over, and the site URL loses its slash.
C3_Witness ==
    /\ op = "resource_uri"
    /\ arg = [uri |-> <<>>, id |-> <<"r", "1">>, package_id |-> <<"d", "1">>]
    /\ ~Available(config["ckanext.dcat.base_uri"])
    /\ config["ckan.site_url"] = <<"s", "/">>
    /\ result = Returned(<<"s">> \o DATASET \o <<"d", "1">>
                           \o RESOURCE \o <<"r", "1">>)

----------------------------------------------------------------------------
(* C4, C5, C6 *)

\* C4: a non-empty publisher_uri field is what
\* publisher_uri_from_dataset_dict(record) returns, whatever the record's
\* extras and organization are.
C4_PublisherUriField ==
    (op = "publisher_uri_from_dataset_dict" /\ Available(Get(arg, "publisher_uri")))
        => result = Returned(arg["publisher_uri"])

\* C5: with no publisher URI field (under either spelling) and no extras
\* entry under "publisher_uri", publisher_uri_from_dataset_dict(record)
\* returns catalog_uri() without its trailing slashes + "/organization/" +
\* the organization's id if an organization is present, and None if not.
C5_PublisherUriFromOrganization ==
    ( /\ op = "publisher_uri_from_dataset_dict"
      /\ "publisher_uri" \notin DOMAIN arg
      /\ "pubisher_uri" \notin DOMAIN arg
      /\ FirstIndex(ExtrasIn(arg), "publisher_uri") = 0 )
        => IF "organization" \in DOMAIN arg
           THEN /\ result.kind = "return"
                /\ "id" \in DOMAIN arg["organization"] =>
                      result.val = NoTrailingSlash(CatalogAt(config, LastUuid(1)))
                                     \o ORGANIZATION \o arg["organization"]["id"]
           ELSE result = Returned(None)

\* C6: publisher_uri_from_dataset_dict never raises.
C6_PublisherUriNeverRaises ==
    op = "publisher_uri_from_dataset_dict" => result.kind = "return"

----------------------------------------------------------------------------
(* C7 *)

\* C7 (amended): resource_uri(record) fails exactly when the record has no
\* non-empty uri and no id field, whether or not a dataset id can be
\* resolved: the KeyError reaches the caller.  For every other record it
\* returns a string.
C7_ResourceUriFails ==
    op = "resource_uri" =>
        IF ~Available(Get(arg, "uri")) /\ "id" \notin DOMAIN arg
        THEN result = Raised(KeyError)
        ELSE result.kind = "return" /\ result.val # None

\* C7 as stated: it fails exactly when, besides, no dataset id can be
\* resolved (no package_id, and nothing found by the lookup).
C7_AsStated ==
    op = "resource_uri" =>
        LET resolved == \/ Available(Get(arg, "package_id"))
                        \/ /\ "id" \in DOMAIN arg
                           /\ arg["id"] \in DOMAIN resources
        IN  IF ~Available(Get(arg, "uri")) /\ ~resolved /\ "id" \notin DOMAIN arg
            THEN result = Raised(KeyError)
            ELSE result.kind = "return" /\ result.val # None

\* A record with a package_id and no id: the call fails all the same.
C7_Witness ==
    /\ op = "resource_uri"
    /\ arg = [package_id |-> <<"d", "1">>]
    /\ result = Raised(KeyError)

----------------------------------------------------------------------------
(* C8 *)

\* C8: rdflib_to_url_format(url_to_rdflib_format(f)) is f for ttl, n3 and
\* jsonld, and xml for rdf and for xml; both translators always return, and
\* return a name they do not recognise unchanged.
C8_FormatRoundTrip ==
    /\ op = "round_trip" =>
          /\ arg \in {TTL, N3, JSONLD} => result = Returned(arg)
          /\ arg \in {RDF, XML} => result = Returned(XML)
    /\ op = "url_to_rdflib_format" =>
          /\ result.kind = "return"
          /\ arg \notin {TTL, RDF, XML, JSONLD} => result.val = arg
    /\ op = "rdflib_to_url_format" =>
          /\ result.kind = "return"
          /\ arg \notin {TURTLE, PRETTY_XML, JSON_LD} => result.val = arg

\* rdf has gone to pretty-xml and come back as xml.
C8_Witness == op = "round_trip" /\ arg = RDF /\ result = Returned(XML)

----------------------------------------------------------------------------
(* C10 *)

\* C10 (amended): dataset_id_from_resource(record) returns the record's
\* package_id when it is present and non-empty, without any lookup; the
\* lookup, by the record's id, is performed only when the record has no
\* non-empty package_id, and the call then returns the dataset id of the
\* resource found, or None when none is found.
C10_DatasetIdFromResource ==
    op = "dataset_id_from_resource" =>
        LET package_id == Get(arg, "package_id")
        IN  /\ Available(package_id) =>
                  result = Returned(package_id) /\ queried = <<>>
            /\ queried # <<>> =>
                  /\ ~Available(package_id)
                  /\ "id" \in DOMAIN arg
                  /\ queried = <<arg["id"]>>
                  /\ result = Returned(IF arg["id"] \in DOMAIN resources
                                       THEN resources[arg["id"]] ELSE None)
            /\ (~Available(package_id) /\ "id" \in DOMAIN arg) => queried # <<>>

\* C10 as stated: a package_id that is present is returned without a lookup.
C10_AsStated ==
    op = "dataset_id_from_resource" =>
        /\ "package_id" \in DOMAIN arg =>
              /\ queried = <<>>
              /\ result.kind = "return" => result.val = arg["package_id"]
        /\ queried # <<>> =>
              /\ "package_id" \notin DOMAIN arg
              /\ "id" \in DOMAIN arg
              /\ queried = <<arg["id"]>>
              /\ result = Returned(IF arg["id"] \in DOMAIN resources
                                   THEN resources[arg["id"]] ELSE None)

\* An empty package_id: the resource was looked up and its dataset returned.
C10_Witness ==
    /\ op = "dataset_id_from_resource"
    /\ arg = [id |-> <<"r", "1">>, package_id |-> <<>>]
    /\ queried = <<<<"r", "1">>>>
    /\ result = Returned(<<"d", "1">>)

====
